---- MODULE Spec2Model ----
(***************************************************************************)
(* Connection lifecycle (connection.c) and connection pool (pool.c) of the *)
(* Duda PostgreSQL package, modelled at the level of the heap blocks and   *)
(* the intrusive mk_list links the C code manipulates.                     *)
(*                                                                         *)
(* Memory model.  A postgresql_conn_t lives in one of MaxConns heap        *)
(* blocks.  FREE() marks the block "freed" but leaves its bytes in place.  *)
(* The allocator is one of two kinds, fixed at start (recycle): it hands   *)
(* out the block freed last again, so that a dangling pointer aliases the  *)
(* newer connection, or it hands out fresh blocks only.  Reads and writes  *)
(* through a dangling pointer act on the block's bytes.  A second release  *)
(* of the same object either goes unnoticed or is detected by the          *)
(* allocator (ub).  A detected second release and an access through a      *)
(* NULL or never initialised pointer leave defined behaviour: crashed =    *)
(* TRUE stands for whatever the process does then, and the model follows   *)
(* it no further.                                                          *)
(***************************************************************************)
EXTENDS Integers, Sequences, FiniteSets, TLC

MaxConns == 2      \* heap blocks available for postgresql_conn_t objects
MaxLog   == 5      \* events remembered per connection object
MaxDrift == 1      \* how far outside 0..max_size a pool counter is followed
MaxLent  == 2      \* outstanding handles to one block that callers are tracked to hold

NULL == 0

Blocks   == 1..MaxConns
Keys     == {1, 2}                 \* duda_global_t pool keys
Requests == {"dr1"}                \* duda_request_t contexts of callers
Callbacks == {"NULL", "cb"}        \* caller supplied callback pointers
PoolCallbacks == {"cb"}            \* the callbacks callers hand to the pool

\* ---- list nodes (struct mk_list) ------------------------------------------
NULLP == <<"NULL", 0>>
Rn    == <<"R", 0>>                \* head of postgresql_conn_list
Fn(k) == <<"F", k>>                \* pool->free_conns
Bn(k) == <<"B", k>>                \* pool->busy_conns
Hn(c) == <<"h", c>>                \* conn->_head
Pn(c) == <<"p", c>>                \* conn->_pool_head
Nodes == {Rn} \cup {Fn(k) : k \in Keys} \cup {Bn(k) : k \in Keys}
              \cup {Hn(c) : c \in Blocks} \cup {Pn(c) : c \in Blocks}

VARIABLES
    heap,        \* block -> "unused" | "live" | "freed"
    last_freed,  \* the block released last and not handed out again (NULL: none)
    recycle,     \* TRUE: mem_alloc hands a released block out again at once
    conns,       \* block -> the bytes of the postgresql_conn_t stored there
    log,         \* block -> events on the object allocated there (history)
    nxt, prv,    \* struct mk_list links of every node
    pools,       \* key -> the postgresql_pool_t stored under global key
    conn_list,   \* TRUE when global postgresql_conn_list has been allocated
    postgresql_pool_config_list,   \* registered configurations, in list order
    POSTGRESQL_POOL_DEFAULT_SIZE,
    POSTGRESQL_POOL_DEFAULT_MIN_SIZE,
    POSTGRESQL_POOL_DEFAULT_MAX_SIZE,
    sess,        \* block -> state of the PGconn that conns[block].conn points to
    service_keys, \* the pool keys the service passes to get_conn
    own,         \* handles returned by connect / connect_url, not yet disconnected
    lent,        \* block -> outstanding handles returned by get_conn
    last,        \* what the last API call was and what it returned
    crashed

vars == <<heap, last_freed, recycle, conns, sess, log, nxt, prv, pools, conn_list, postgresql_pool_config_list,
          POSTGRESQL_POOL_DEFAULT_SIZE, POSTGRESQL_POOL_DEFAULT_MIN_SIZE,
          POSTGRESQL_POOL_DEFAULT_MAX_SIZE, service_keys, own, lent, last, crashed>>

\* The part of the state the C functions below read and write, as one record,
\* with the call's transient results (ret, spawn_calls, direct_calls, spawned).
Cur == [heap |-> heap, last_freed |-> last_freed, recycle |-> recycle,
        conns |-> conns, sess |-> sess, log |-> log, nxt |-> nxt, prv |-> prv,
        pools |-> pools, conn_list |-> conn_list, lent |-> lent,
        config_list |-> postgresql_pool_config_list,
        DEFAULT_SIZE |-> POSTGRESQL_POOL_DEFAULT_SIZE,
        DEFAULT_MIN_SIZE |-> POSTGRESQL_POOL_DEFAULT_MIN_SIZE,
        crashed |-> FALSE, ret |-> NULL, rc |-> "OK",
        spawn_calls |-> 0, direct_calls |-> 0, spawned |-> {}, direct_args |-> <<>>,
        shrink_calls |-> 0, nomem |-> FALSE]

Crash(s) == [s EXCEPT !.crashed = TRUE]

Event(s, c, e) ==
    IF Len(s.log[c]) >= MaxLog THEN s
    ELSE [s EXCEPT !.log[c] = Append(@, e)]

\* ---- mk_list.h of the host (tail insertion, unlink, emptiness) ------------
mk_list_init(s, n) == [s EXCEPT !.nxt[n] = n, !.prv[n] = n]

mk_list_add(s, new, head) ==
    IF s.crashed THEN s
    ELSE LET prev == s.prv[head] IN
         IF prev = NULLP THEN Crash(s)
         ELSE LET p1 == [s.prv EXCEPT ![head] = new]
                  n1 == [s.nxt EXCEPT ![new] = head]
                  p2 == [p1 EXCEPT ![new] = prev]
                  n2 == [n1 EXCEPT ![prev] = new]
              IN [s EXCEPT !.prv = p2, !.nxt = n2]

mk_list_del(s, entry) ==
    IF s.crashed THEN s
    ELSE LET prev == s.prv[entry]
             next == s.nxt[entry] IN
         IF prev = NULLP \/ next = NULLP THEN Crash(s)
         ELSE LET n1 == [s.nxt EXCEPT ![prev] = next]
                  p1 == [s.prv EXCEPT ![next] = prev]
              IN [s EXCEPT !.nxt = [n1 EXCEPT ![entry] = NULLP],
                           !.prv = [p1 EXCEPT ![entry] = NULLP]]

\* mk_list_is_empty() == 0 in the host's convention: the head points at itself
ListIsEmpty(s, head) == s.nxt[head] = head

\* mk_list_entry_first(head, postgresql_conn_t, _pool_head): the block whose
\* _pool_head is head->next; NULL stands for a pointer that is no connection
mk_list_entry_first(s, head) ==
    LET n == s.nxt[head] IN IF n[1] = "p" THEN n[2] ELSE NULL

\* ---- connection.c ----------------------------------------------------------
\* What one connection attempt meets: blk is the block mem_alloc returns (NULL:
\* the allocation fails), path is what libpq reports, listok is whether the
\* allocation of the connection list head (made only when it is missing) works.
Paths == {"null", "bad", "nbfail", "pollfail", "pollok", "pollpend"}
PoolPaths == {"bad", "pollok", "pollpend"}   \* those met by a pool's attempts
ConnectIn == [blk : Blocks \cup {NULL}, path : Paths, listok : BOOLEAN]

\* monkey->mem_alloc(sizeof(postgresql_conn_t)): an allocator that recycles
\* hands out the block released last; otherwise, and when there is none, the
\* lowest block never used is handed out.
CanAlloc(s, b) ==
    /\ b \in Blocks
    /\ IF s.recycle /\ s.last_freed # NULL
       THEN s.heap[b] = "freed" /\ b = s.last_freed
       ELSE s.heap[b] = "unused" /\ \A b2 \in Blocks : b2 < b => s.heap[b2] # "unused"

__postgresql_conn_create(s, b, dr, cb) ==
    IF ~CanAlloc(s, b) THEN [s EXCEPT !.ret = NULL, !.nomem = TRUE]
    ELSE [s EXCEPT !.heap[b] = "live",
                   !.last_freed = IF @ = b THEN NULL ELSE @,
                   !.log[b] = <<>>,
                   !.sess[b] = "none",
                   !.conns[b] = [@ EXCEPT !.dr = dr, !.conn = "NULL",
                                          !.connect_cb = cb,
                                          !.disconnect_cb = "NULL",
                                          !.state = "CLOSE",
                                          !.disconnect_on_finish = 0],
                   !.ret = b]

\* a variant of CallConnectCb that never calls
CallConnectCbNever(s, c, status) == s

\* if (conn->connect_cb) conn->connect_cb(conn, status, conn->dr)
CallConnectCb(s, c, status) ==
    IF s.conns[c].connect_cb = "NULL" THEN s
    ELSE Event(s, c, IF status = "OK" THEN "connect_cb_OK" ELSE "connect_cb_ERR")

\* PQfinish(conn->conn).  ub: what a second PQfinish of the same PGconn does
\* ("abort": the allocator detects it and ends the process; "silent": it goes on).
PQfinish(s, c, ub) ==
    IF s.crashed \/ s.conns[c].conn = "NULL" THEN s
    ELSE IF s.sess[c] = "finished"
         THEN (IF ub = "abort" THEN Crash(s) ELSE Event(s, c, "PQfinish"))
         ELSE Event([s EXCEPT !.sess[c] = "finished"], c, "PQfinish")

\* FREE(conn)
FREE(s, c, ub) ==
    IF s.crashed THEN s
    ELSE IF s.heap[c] = "freed"
         THEN (IF ub = "abort" THEN Crash(s) ELSE Event(s, c, "FREE"))
         ELSE Event([s EXCEPT !.heap[c] = "freed", !.last_freed = c], c, "FREE")

\* the code after the label cleanup:
Cleanup(s, c) == FREE(PQfinish(s, c, "abort"), c, "abort")

\* lines 101-111: look the connection list up, make it when it is missing, and
\* add the connection to it
Register(s, c, cin) ==
    IF s.conn_list THEN mk_list_add(s, Hn(c), Rn)
    ELSE IF ~cin.listok THEN s
    ELSE mk_list_add(mk_list_init([s EXCEPT !.conn_list = TRUE], Rn), Hn(c), Rn)

\* the registration with the event loop and with postgresql_conn_list; control
\* then runs on into the label cleanup (no return precedes it)
RegisterAndFallThrough(s, c, cin) ==
    Cleanup(Register(Event(s, c, "event_add"), c, cin), c)

__postgresql_conn_handle_connect(s, c, cin) ==
    IF s.conns[c].conn = "NULL" THEN FREE(s, c, "abort")
    ELSE IF cin.path = "bad" THEN Cleanup(CallConnectCb(s, c, "ERR"), c)
    ELSE IF cin.path = "nbfail" THEN Cleanup(s, c)
    ELSE IF cin.path = "pollfail" THEN Cleanup(CallConnectCb(s, c, "ERR"), c)
    ELSE IF cin.path = "pollok"
         THEN RegisterAndFallThrough(
                  [CallConnectCb(s, c, "OK") EXCEPT !.conns[c].state = "CONNECTED"],
                  c, cin)
         ELSE RegisterAndFallThrough(
                  [s EXCEPT !.conns[c].state = "CONNECTING"], c, cin)

\* lines 123-131: s is the state __postgresql_conn_create left, s.ret the new
\* connection; PQconnectStart* gives it a PGconn or NULL, the handshake is
\* driven once, and the pointer is returned whatever became of the object
StartHandshake(s, cin) ==
    IF s.ret = NULL THEN s
    ELSE [__postgresql_conn_handle_connect(
              IF cin.path = "null" THEN s
              ELSE [s EXCEPT !.conns[s.ret].conn = "PG", !.sess[s.ret] = "open"],
              s.ret, cin)
          EXCEPT !.ret = s.ret]

\* postgresql_conn_connect and postgresql_conn_connect_url: the same body around
\* PQconnectStartParams / PQconnectStart
ConnectStart(s, dr, cb, cin) ==
    StartHandshake(__postgresql_conn_create(s, cin.blk, dr, cb), cin)

postgresql_conn_connect(s, dr, cb, cin) == ConnectStart(s, dr, cb, cin)

postgresql_conn_connect_url(s, dr, cb, cin) == ConnectStart(s, dr, cb, cin)

\* if (conn->disconnect_cb) conn->disconnect_cb(conn, status, conn->dr)
CallDisconnectCb(s, c) ==
    IF s.conns[c].disconnect_cb = "NULL" THEN s ELSE Event(s, c, "disconnect_cb")

__postgresql_conn_handle_release(s, c, ub) ==
    IF s.crashed THEN s
    ELSE IF c = NULL THEN Crash(s)
    ELSE FREE(PQfinish(
                 mk_list_del(
                     [CallDisconnectCb(Event(s, c, "event_delete"), c)
                         EXCEPT !.conns[c].state = "CLOSED"],
                     Hn(c)),
                 c, ub),
              c, ub)

postgresql_conn_disconnect(s, c, cb, ub) ==
    LET s1 == [s EXCEPT !.conns[c].disconnect_cb = cb] IN
    IF s1.conns[c].state # "CONNECTED"
    THEN [s1 EXCEPT !.conns[c].disconnect_on_finish = 1]
    ELSE __postgresql_conn_handle_release(s1, c, ub)

\* ---- pool.c ----------------------------------------------------------------
\* What one get_conn call meets: poolok is whether the allocation of the pool
\* object works, cins are the connection attempts it makes in order, reenter is
\* how many times the caller's connect callback calls get_conn again.
Config(s, k) == s.config_list[s.pools[k].config]

RECURSIVE SpawnLoop(_, _, _, _, _)

\* lines 213-221: s is the state the connect call left, s.ret its result
SpawnStep(s, k, i, size, cins) ==
    IF s.ret = NULL THEN s
    ELSE SpawnLoop(
             [mk_list_add([s EXCEPT !.conns[s.ret].is_pooled = 1,
                                    !.conns[s.ret].pool = k],
                          Pn(s.ret), Fn(k))
                 EXCEPT !.pools[k].size = @ + 1,
                        !.pools[k].free_size = @ + 1,
                        !.spawned = @ \cup {s.ret}],
             k, i + 1, size, cins)

SpawnLoop(s, k, i, size, cins) ==
    IF i >= size \/ s.crashed THEN s
    ELSE SpawnStep(postgresql_conn_connect(s, "NULL", "NULL", cins[i + 1]),
                   k, i, size, cins)

\* lines 224-228
SpawnResult(s, k) ==
    [s EXCEPT !.rc = IF s.pools[k].free_size = 0 THEN "ERR" ELSE "OK"]

__postgresql_pool_spawn_conn(s, k, size, cins) ==
    SpawnResult(SpawnLoop([s EXCEPT !.spawn_calls = @ + 1], k, 0, size, cins), k)

RECURSIVE ReleaseLoop(_, _, _, _, _)
ReleaseLoop(s, k, i, size, ub) ==
    IF i >= size \/ s.crashed THEN s
    ELSE LET c == mk_list_entry_first(s, Fn(k)) IN
         IF c = NULL THEN Crash(s)
         ELSE LET s1 == mk_list_del(s, Pn(c))
                  s2 == [s1 EXCEPT !.conns[c].is_pooled = 0]
                  s3 == __postgresql_conn_handle_release(s2, c, ub)
                  s4 == [s3 EXCEPT !.pools[k].size = @ - 1,
                                   !.pools[k].free_size = @ - 1]
              IN ReleaseLoop(s4, k, i + 1, size, ub)

__postgresql_pool_release_conn(s, k, size, ub) == ReleaseLoop(s, k, 0, size, ub)

\* the index in postgresql_pool_config_list of the configuration returned for
\* pool_key (0: NULL).  The loop variable is returned as it stands after the
\* loop: the first match, or else the last entry visited.
__postgresql_pool_get_config(s, pool_key) ==
    LET n == Len(s.config_list)
        hits == {i \in 1..n : s.config_list[i].pool_key = pool_key}
    IN IF n = 0 THEN 0
       ELSE IF hits # {} THEN CHOOSE i \in hits : \A j \in hits : i <= j
       ELSE n

\* postgresql_pool_params_create / postgresql_pool_uri_create: the entry added
\* to postgresql_pool_config_list
PoolConfig(pool_key, min_size, max_size, type, dmin, dmax) ==
    [pool_key |-> pool_key,
     min_size |-> IF min_size = 0 THEN dmin ELSE min_size,
     max_size |-> IF max_size = 0 THEN dmax ELSE max_size,
     type     |-> type]

postgresql_pool_params_create(list, pool_key, min_size, max_size, dmin, dmax) ==
    Append(list, PoolConfig(pool_key, min_size, max_size, "PARAMS", dmin, dmax))

postgresql_pool_uri_create(list, pool_key, min_size, max_size, dmin, dmax) ==
    Append(list, PoolConfig(pool_key, min_size, max_size, "URI", dmin, dmax))

RECURSIVE postgresql_pool_get_conn(_, _, _, _, _)

\* a handle the callback obtained from its own get_conn call is one more handle
\* in the caller's hands
NestedHandle(s) ==
    IF s.crashed \/ s.ret = NULL THEN s
    ELSE [s EXCEPT !.lent[s.ret] = IF @ < MaxLent THEN @ + 1 ELSE @]

\* lines 429-431: the callback is the caller's code, it may call get_conn itself
CallbackMayReenter(s, k, dr, cb, in) ==
    IF cb # "NULL" /\ in.reenter > 0
    THEN NestedHandle(postgresql_pool_get_conn(
                          s, k, dr, cb, [in EXCEPT !.reenter = @ - 1]))
    ELSE s

\* lines 435-437
LendResult(s, k, c) ==
    IF s.crashed THEN s
    ELSE [s EXCEPT !.pools[k].free_size = @ - 1, !.ret = c]

\* lines 426-437, c the first entry of the free list
Lend(s, k, c, dr, cb, in) ==
    LendResult(
        mk_list_add(
            mk_list_del(
                CallbackMayReenter(
                    CallConnectCb([s EXCEPT !.conns[c].dr = dr,
                                            !.conns[c].connect_cb = cb],
                                  c, "OK"),
                    k, dr, cb, in),
                Pn(c)),
            Pn(c), Bn(k)),
        k, c)

\* lines 425-437: hand out the first free connection
LendFirstFree(s, k, dr, cb, in) ==
    IF s.crashed THEN s
    ELSE IF mk_list_entry_first(s, Fn(k)) = NULL THEN Crash(s)
    ELSE Lend(s, k, mk_list_entry_first(s, Fn(k)), dr, cb, in)

\* lines 381-400: find the pool of this thread or create it
FindOrCreatePool(s, k, in) ==
    IF s.pools[k].alloc THEN s
    ELSE IF ~in.poolok THEN [s EXCEPT !.rc = "ERR"]
    ELSE LET config == __postgresql_pool_get_config(s, k) IN
         IF config = 0 THEN [s EXCEPT !.rc = "ERR"]
         ELSE mk_list_init(mk_list_init(
                  [s EXCEPT !.pools[k] = [alloc |-> TRUE, size |-> 0,
                                          free_size |-> 0, config |-> config]],
                  Fn(k)), Bn(k))

\* a variant of DirectConnect that connects as Spawn does, without the
\* caller's request and callback
DirectConnectAnonymous(s, k, dr, cb, cin) ==
    [postgresql_conn_connect(s, "NULL", "NULL", cin)
        EXCEPT !.direct_calls = @ + 1, !.direct_args = <<"NULL", "NULL">>]

\* lines 413-421: open a connection of the caller's own with the pool's parameters
DirectConnect(s, k, dr, cb, cin) ==
    [(IF Config(s, k).type = "PARAMS"
      THEN postgresql_conn_connect(s, dr, cb, cin)
      ELSE postgresql_conn_connect_url(s, dr, cb, cin))
        EXCEPT !.direct_calls = @ + 1, !.direct_args = <<dr, cb>>]

\* a variant of PoolBelowMax with the test turned round
PoolBelowMaxInverted(s, k) == s.pools[k].size >= Config(s, k).max_size

\* line 407: may the pool still grow
PoolBelowMax(s, k) == s.pools[k].size < Config(s, k).max_size

\* lines 409-411 and on to 425: s is the state the spawn call left
LendIfSpawned(s, k, dr, cb, in) ==
    IF s.rc # "OK" THEN [s EXCEPT !.ret = NULL]
    ELSE LendFirstFree(s, k, dr, cb, in)

\* lines 402-437: s is the state after the pool was found or made
Acquire(s, k, dr, cb, in) ==
    IF s.rc # "OK" THEN [s EXCEPT !.ret = NULL]
    ELSE IF ListIsEmpty(s, Fn(k))
         THEN IF PoolBelowMax(s, k)
              THEN LendIfSpawned(
                       __postgresql_pool_spawn_conn(s, k, s.DEFAULT_SIZE, in.cins),
                       k, dr, cb, in)
              ELSE DirectConnect(s, k, dr, cb, in.cins[1])
         ELSE LendFirstFree(s, k, dr, cb, in)

postgresql_pool_get_conn(s, k, dr, cb, in) ==
    Acquire(FindOrCreatePool([s EXCEPT !.rc = "OK"], k, in), k, dr, cb, in)

\* a variant of ShrinkLoop that never releases
ShrinkLoopNever(s, k, ub) == s

RECURSIVE ShrinkLoop(_, _, _)

\* lines 453-456; shrink_calls counts the passes of the loop
ShrinkLoop(s, k, ub) ==
    IF s.crashed THEN s
    ELSE IF /\ s.pools[k].free_size * 2 > s.pools[k].size
            /\ s.pools[k].size > s.DEFAULT_MIN_SIZE
         THEN ShrinkLoop(
                  __postgresql_pool_release_conn(
                      [s EXCEPT !.shrink_calls = @ + 1], k, s.DEFAULT_SIZE, ub),
                  k, ub)
         ELSE s

\* lines 451-456: s is the state after the connection went back to the free list
ShrinkAfterReturn(s, k, ub) ==
    IF s.crashed THEN s
    ELSE ShrinkLoop([s EXCEPT !.pools[k].free_size = @ + 1], k, ub)

\* lines 450-456: s is the state after the connection left the list it was in
ReturnToFree(s, k, c, ub) ==
    IF s.crashed THEN s
    ELSE IF k = NULL THEN Crash(s)
    ELSE ShrinkAfterReturn(mk_list_add(s, Pn(c), Fn(k)), k, ub)

postgresql_pool_reclaim_conn(s, c, ub) ==
    ReturnToFree(
        mk_list_del([s EXCEPT !.conns[c].dr = "NULL",
                              !.conns[c].connect_cb = "NULL",
                              !.conns[c].disconnect_cb = "NULL",
                              !.conns[c].disconnect_on_finish = 0],
                    Pn(c)),
        s.conns[c].pool, c, ub)

\* ---- the state after construction ------------------------------------------
\* pool.h is not part of the sources at hand: the three defaults are drawn from
\* small sets, and so are the sizes the service registers in duda_main().
MaxBatch == 2
DefaultSizes    == 1..MaxBatch
DefaultMinSizes == {1, 2}
DefaultMaxSizes == {3}
RegMinSizes     == {0, 2}
RegMaxSizes     == {0, 1}

NoConn == [dr |-> "NULL", conn |-> "NULL", connect_cb |-> "NULL",
           disconnect_cb |-> "NULL", state |-> "CLOSE", disconnect_on_finish |-> 0,
           is_pooled |-> 0, pool |-> NULL]
NoPool == [alloc |-> FALSE, size |-> 0, free_size |-> 0, config |-> 0]
NoCall == [op |-> "none", key |-> NULL, dr |-> "NULL", cb |-> "NULL",
           path |-> "none", reenter |-> 0, ret |-> NULL,
           spawn_calls |-> 0, direct_calls |-> 0, spawned |-> {},
           direct_args |-> <<>>, shrink_calls |-> 0, nomem |-> FALSE]

InitMemory ==
    /\ heap = [b \in Blocks |-> "unused"]
    /\ last_freed = NULL
    /\ conns = [b \in Blocks |-> NoConn]
    /\ sess = [b \in Blocks |-> "none"]
    /\ log = [b \in Blocks |-> <<>>]
    /\ nxt = [n \in Nodes |-> NULLP]
    /\ prv = [n \in Nodes |-> NULLP]
    /\ pools = [k \in Keys |-> NoPool]
    /\ conn_list = FALSE
    /\ own = {}
    /\ lent = [b \in Blocks |-> 0]
    /\ last = NoCall
    /\ crashed = FALSE

InitDefaults ==
    /\ recycle \in BOOLEAN
    /\ POSTGRESQL_POOL_DEFAULT_SIZE \in DefaultSizes
    /\ POSTGRESQL_POOL_DEFAULT_MIN_SIZE \in DefaultMinSizes
    /\ POSTGRESQL_POOL_DEFAULT_MAX_SIZE \in DefaultMaxSizes

\* duda_main() registered one pool, under key 1, and the service uses that key
Init ==
    /\ InitMemory
    /\ InitDefaults
    /\ service_keys = {1}
    /\ \E mn \in RegMinSizes, mx \in RegMaxSizes :
          postgresql_pool_config_list =
              postgresql_pool_params_create(<<>>, 1, mn, mx,
                  POSTGRESQL_POOL_DEFAULT_MIN_SIZE, POSTGRESQL_POOL_DEFAULT_MAX_SIZE)

\* ---- the API calls ----------------------------------------------------------
Fixed == UNCHANGED <<postgresql_pool_config_list, POSTGRESQL_POOL_DEFAULT_SIZE,
                     POSTGRESQL_POOL_DEFAULT_MIN_SIZE,
                     POSTGRESQL_POOL_DEFAULT_MAX_SIZE, service_keys, recycle>>

\* The process is gone after a crash: its memory is not observed any more, and
\* the state keeps only which call crashed.
Commit(s, call, o, l) ==
    /\ heap' = IF s.crashed THEN [b \in Blocks |-> "unused"] ELSE s.heap
    /\ last_freed' = IF s.crashed THEN NULL ELSE s.last_freed
    /\ conns' = IF s.crashed THEN [b \in Blocks |-> NoConn] ELSE s.conns
    /\ sess' = IF s.crashed THEN [b \in Blocks |-> "none"] ELSE s.sess
    /\ log' = IF s.crashed THEN [b \in Blocks |-> <<>>] ELSE s.log
    /\ nxt' = IF s.crashed THEN [n \in Nodes |-> NULLP] ELSE s.nxt
    /\ prv' = IF s.crashed THEN [n \in Nodes |-> NULLP] ELSE s.prv
    /\ pools' = IF s.crashed THEN [k \in Keys |-> NoPool] ELSE s.pools
    /\ conn_list' = IF s.crashed THEN FALSE ELSE s.conn_list
    /\ own' = IF s.crashed THEN {} ELSE o
    /\ lent' = IF s.crashed THEN [b \in Blocks |-> 0] ELSE l
    /\ crashed' = s.crashed
    /\ last' = IF s.crashed THEN [NoCall EXCEPT !.op = call.op]
               ELSE [call EXCEPT !.ret = s.ret, !.spawn_calls = s.spawn_calls,
                                 !.direct_calls = s.direct_calls,
                                 !.spawned = s.spawned,
                                 !.direct_args = s.direct_args,
                                 !.shrink_calls = s.shrink_calls,
                                 !.nomem = s.nomem]
    /\ Fixed

\* the model follows a pool while its counters are within MaxDrift of 0..max_size
CountersInRange(s) ==
    s.crashed \/ \A k \in Keys :
        s.pools[k].alloc =>
            /\ s.pools[k].free_size >= 0 - MaxDrift
            /\ s.pools[k].free_size <= Config(s, k).max_size + MaxDrift
            /\ s.pools[k].size >= 0 - MaxDrift
            /\ s.pools[k].size <= Config(s, k).max_size + MaxDrift

\* the connection attempts a call may meet in the current state
ConnectChoices(first) ==
    {ci \in ConnectIn :
        /\ ci.listok \/ (~conn_list /\ ci.path \in {"pollok", "pollpend"})
        /\ first => (ci.blk = NULL \/ CanAlloc(Cur, ci.blk))}

\* connect returns: a handle it returned is the caller's own
ReturnOwned(s, call) ==
    Commit(s, call, IF s.ret = NULL THEN own ELSE own \cup {s.ret}, lent)

Connect(dr, cb, cin) ==
    /\ ~crashed
    /\ ReturnOwned(postgresql_conn_connect(Cur, dr, cb, cin),
                   [NoCall EXCEPT !.op = "connect", !.dr = dr, !.cb = cb,
                                  !.path = cin.path])

ConnectUrl(dr, cb, cin) ==
    /\ ~crashed
    /\ ReturnOwned(postgresql_conn_connect_url(Cur, dr, cb, cin),
                   [NoCall EXCEPT !.op = "connect", !.dr = dr, !.cb = cb,
                                  !.path = cin.path])

\* the inputs of one get_conn call that its code can read in the current state
GetConnIn(k, cb) ==
    LET fresh  == ~pools[k].alloc
        empty  == fresh \/ ListIsEmpty(Cur, Fn(k))
        n      == IF empty THEN POSTGRESQL_POOL_DEFAULT_SIZE ELSE 0
    IN {in \in [poolok  : IF fresh THEN BOOLEAN ELSE {TRUE},
                cins    : [1..n -> {ci \in ConnectChoices(FALSE) :
                                       ci.listok /\ ci.path \in PoolPaths}],
                reenter : IF cb = "NULL" THEN {0} ELSE {0, 1}] :
           n > 0 => in.cins[1] \in ConnectChoices(TRUE)}

\* the call returns: its result and effects become the state
Return(s, call, o, l) == CountersInRange(s) /\ Commit(s, call, o, l)

\* get_conn returns: the handles it gave out are in the caller's hands
ReturnLent(s, call) == Return(s, call, own, s.lent)

GetConn(k, dr, cb, in) ==
    /\ ~crashed
    /\ ReturnLent(NestedHandle(postgresql_pool_get_conn(Cur, k, dr, cb, in)),
                  [NoCall EXCEPT !.op = "get_conn", !.key = k, !.dr = dr, !.cb = cb,
                                 !.reenter = in.reenter])

Reclaim(c, ub) ==
    /\ ~crashed
    /\ lent[c] > 0
    /\ Return([postgresql_pool_reclaim_conn(Cur, c, ub) EXCEPT !.ret = c],
              [NoCall EXCEPT !.op = "reclaim"], own, [lent EXCEPT ![c] = @ - 1])

Disconnect(c, cb, ub) ==
    /\ ~crashed
    /\ c \in own
    /\ Commit([postgresql_conn_disconnect(Cur, c, cb, ub) EXCEPT !.ret = c],
              [NoCall EXCEPT !.op = "disconnect"], own \ {c}, lent)

DisconnectLent(c, cb, ub) ==
    /\ ~crashed
    /\ lent[c] > 0
    /\ Commit([postgresql_conn_disconnect(Cur, c, cb, ub) EXCEPT !.ret = c],
              [NoCall EXCEPT !.op = "disconnect"], own,
              [lent EXCEPT ![c] = @ - 1])

UBs == {"abort", "silent"}

\* a service that takes its connections from the pool
Next ==
    \/ \E k \in service_keys, dr \in Requests, cb \in PoolCallbacks :
          \E in \in GetConnIn(k, cb) : GetConn(k, dr, cb, in)
    \/ \E c \in Blocks, ub \in UBs : Reclaim(c, ub)
    \/ \E c \in Blocks, cb \in PoolCallbacks, ub \in UBs : DisconnectLent(c, cb, ub)

Spec == Init /\ [][Next]_vars

\* a service that opens and closes its connections itself
NextConn ==
    \/ \E dr \in Requests, cb \in Callbacks, cin \in ConnectChoices(TRUE) :
          Connect(dr, cb, cin)
    \/ \E dr \in Requests, cb \in Callbacks, cin \in ConnectChoices(TRUE) :
          ConnectUrl(dr, cb, cin)
    \/ \E c \in Blocks, cb \in Callbacks, ub \in UBs : Disconnect(c, cb, ub)

\* the pool defaults and registrations play no part in such a service
InitConn ==
    /\ InitMemory
    /\ recycle \in BOOLEAN
    /\ POSTGRESQL_POOL_DEFAULT_SIZE = 1
    /\ POSTGRESQL_POOL_DEFAULT_MIN_SIZE = 1
    /\ POSTGRESQL_POOL_DEFAULT_MAX_SIZE = 3
    /\ service_keys = {}
    /\ postgresql_pool_config_list = <<>>

SpecConn == InitConn /\ [][NextConn]_vars

\* ---- the collections, read off the links --------------------------------------
RECURSIVE Walk(_, _, _)
Walk(n, head, seen) ==
    IF n = head \/ n = NULLP \/ n \in seen THEN seen
    ELSE Walk(nxt[n], head, seen \cup {n})

\* the nodes a traversal of the list at head meets (mk_list_foreach)
ListNodes(head) == IF nxt[head] = NULLP THEN {} ELSE Walk(nxt[head], head, {})

Registry   == {c \in Blocks : Hn(c) \in ListNodes(Rn)}
FreeSet(k) == {c \in Blocks : Pn(c) \in ListNodes(Fn(k))}
BusySet(k) == {c \in Blocks : Pn(c) \in ListNodes(Bn(k))}

\* how many of the three collections hold connection c
Memberships(c) ==
    (IF c \in Registry THEN 1 ELSE 0)
  + (IF \E k \in Keys : c \in FreeSet(k) THEN 1 ELSE 0)
  + (IF \E k \in Keys : c \in BusySet(k) THEN 1 ELSE 0)

Count(seq, e) == Cardinality({i \in 1..Len(seq) : seq[i] = e})
Released(c) == heap[c] = "freed" \/ sess[c] = "finished"

\* ---- claims -------------------------------------------------------------------

\* C1: for every pool, in every state reached by get_conn and reclaim_conn calls,
\* 0 <= free_size <= size <= max_size of the pool's configuration.
C1_CountersWithinBounds ==
    \A k \in Keys : pools[k].alloc =>
        /\ 0 <= pools[k].free_size
        /\ pools[k].free_size <= pools[k].size
        /\ pools[k].size <= Config(Cur, k).max_size

\* C2: a connection handed out by get_conn (spawned, then moved from the free
\* to the busy list) is in exactly one of the connection list, a free list and
\* a busy list.
C2_ExactlyOneCollection ==
    (last.op = "get_conn" /\ last.ret # NULL) => Memberships(last.ret) = 1

\* C3: a non-null handle returned by connect for a handshake that completed or
\* is still pending refers to a connection that is in the connection list, whose
\* session is not torn down and whose memory is not freed.
C3_ReturnedHandleIsLive ==
    (/\ last.op = "connect"
     /\ last.ret # NULL
     /\ conns[last.ret].state \in {"CONNECTED", "CONNECTING"})
    => /\ heap[last.ret] = "live"
       /\ sess[last.ret] = "open"
       /\ last.ret \in Registry

\* C4: no reclaim_conn call shrinks a pool that held at least min_size
\* connections below the min_size of its configuration.
C4_NeverBelowMinSize ==
    [][\A k \in Keys :
          (/\ last'.op = "reclaim"
           /\ ~crashed'
           /\ pools[k].alloc
           /\ pools[k].size >= Config(Cur, k).min_size)
          => pools'[k].size >= Config(Cur, k).min_size]_vars

\* C5: when reclaim_conn has returned, free_size * 2 <= size or size = min_size
\* holds of the pool the connection belongs to.
C5_HysteresisAfterReclaim ==
    (last.op = "reclaim" /\ ~crashed /\ conns[last.ret].pool # NULL) =>
        LET k == conns[last.ret].pool IN
        \/ pools[k].free_size * 2 <= pools[k].size
        \/ pools[k].size = Config(Cur, k).min_size

\* get_conn on key k finds the free list empty (or the pool not yet made)
FreeListEmpty(k) == ~pools[k].alloc \/ ListIsEmpty(Cur, Fn(k))

\* the max_size get_conn on key k works with
MaxSizeOf(k) ==
    IF pools[k].alloc THEN Config(Cur, k).max_size
    ELSE postgresql_pool_config_list[__postgresql_pool_get_config(Cur, k)].max_size

\* C6: a get_conn call that finds the free list empty and size < max_size calls
\* spawn exactly once and never connects directly, and a connection it returns
\* is one of those the spawn call made.
C6_EmptyBelowMaxSpawnsOnce ==
    [][\A k \in Keys :
          (/\ last'.op = "get_conn" /\ last'.key = k /\ ~crashed'
           /\ FreeListEmpty(k)
           /\ pools[k].size < MaxSizeOf(k)
           /\ pools'[k].alloc)
          => /\ last'.spawn_calls = 1
             /\ last'.direct_calls = 0
             /\ last'.ret # NULL => last'.ret \in last'.spawned]_vars

\* a get_conn call spawned a batch and returned one of its connections
C6_Witness ==
    /\ last.op = "get_conn" /\ ~crashed
    /\ last.spawn_calls = 1 /\ last.direct_calls = 0
    /\ last.ret # NULL /\ last.ret \in last.spawned

C8_DeferredDisconnectKeepsConnection ==
    \A c \in Blocks :
        (/\ heap[c] # "unused"
         /\ conns[c].state = "CONNECTING"
         /\ conns[c].disconnect_on_finish = 1
         /\ Count(log[c], "event_delete") = 0)
        => ~Released(c)

\* C9: when connect met a handshake that completed, the connect callback was
\* invoked exactly once with OK, the connection is CONNECTED, its socket is
\* registered with the event loop and its session is not torn down.
C9_CompletedHandshake ==
    (/\ last.op = "connect" /\ ~crashed
     /\ last.ret # NULL
     /\ last.cb # "NULL"
     /\ Count(log[last.ret], "connect_cb_OK") > 0)
    => /\ Count(log[last.ret], "connect_cb_OK") = 1
       /\ conns[last.ret].state = "CONNECTED"
       /\ Count(log[last.ret], "event_add") = 1
       /\ Count(log[last.ret], "event_delete") = 0
       /\ Count(log[last.ret], "PQfinish") = 0

ConnectCbs == {"connect_cb_OK", "connect_cb_ERR"}
AnyCbs     == ConnectCbs \cup {"disconnect_cb"}

\* C10: over the life of a connection at most one connect callback is invoked,
\* then at most one disconnect callback, and none after the release.
C10_CallbackOrder ==
    \A c \in Blocks :
        /\ Cardinality({i \in 1..Len(log[c]) : log[c][i] \in ConnectCbs}) <= 1
        /\ Count(log[c], "disconnect_cb") <= 1
        /\ \A i, j \in 1..Len(log[c]) :
              i < j => /\ ~(log[c][i] = "disconnect_cb" /\ log[c][j] \in ConnectCbs)
                       /\ ~(log[c][i] = "FREE" /\ log[c][j] \in AnyCbs)

\* C11: connect returns a handle only for a connection that got through the
\* first handshake step and into the connection list; on every other path the
\* connection is released once and the caller gets NULL.
C11_FailureYieldsNoHandle ==
    (last.op = "connect" /\ ~crashed /\ last.ret # NULL)
    => /\ conns[last.ret].state \in {"CONNECTED", "CONNECTING"}
       /\ last.ret \in Registry

FailPaths == {"bad", "pollfail"}

\* C12: when the handshake fails (connection bad at start, or the poll step
\* fails) and the caller gave a callback, connect invokes it exactly once, with
\* the error status, releases the connection and makes no second attempt: no
\* other connection object is made or touched.
C12_FailureReportedOnce ==
    [][(/\ last'.op = "connect" /\ ~crashed'
        /\ last'.path \in FailPaths
        /\ last'.cb # "NULL"
        /\ last'.ret # NULL)
       => /\ log'[last'.ret] = <<"connect_cb_ERR", "PQfinish", "FREE">>
          /\ \A b \in Blocks \ {last'.ret} :
                heap'[b] = heap[b] /\ log'[b] = log[b]]_vars

\* a connect call met a failed handshake and reported it
C12_Witness ==
    /\ last.op = "connect" /\ ~crashed
    /\ last.path \in FailPaths /\ last.cb # "NULL" /\ last.ret # NULL
    /\ Count(log[last.ret], "connect_cb_ERR") = 1

\* a service that asks for a pool under a key it never registered
NextAnyKey ==
    \/ \E k \in Keys \ service_keys, dr \in Requests, cb \in PoolCallbacks :
          \E in \in GetConnIn(k, cb) : GetConn(k, dr, cb, in)
    \/ \E c \in Blocks, ub \in UBs : Reclaim(c, ub)

SpecAnyKey == Init /\ [][NextAnyKey]_vars

\* C13: get_conn with a key no configuration was registered under returns NULL
\* and makes no pool for that key; a pool is bound to the configuration
\* registered under its own key.
C13_UnregisteredKeyYieldsNothing ==
    /\ (last.op = "get_conn" /\ ~crashed /\ last.key \notin service_keys)
           => last.ret = NULL
    /\ \A k \in Keys : pools[k].alloc =>
           /\ k \in service_keys
           /\ Config(Cur, k).pool_key = k

RECURSIVE SumLent(_)
\* the number of handles the callers hold on blocks 1..b
SumLent(b) == IF b = 0 THEN 0 ELSE lent[b] + SumLent(b - 1)

\* C14: in a pool whose min_size is 1, when the only connection still lent out
\* is reclaimed (so that all that were acquired, at least min_size of them,
\* have come back), the pool settles at size = free_size = min_size.
C14_SettlesAtMinSize ==
    [][\A k \in Keys :
          (/\ last'.op = "reclaim" /\ ~crashed'
           /\ pools[k].alloc
           /\ Config(Cur, k).min_size = 1
           /\ SumLent(MaxConns) = 1
           /\ \E c \in Blocks : lent[c] = 1 /\ conns[c].pool = k)
          => /\ pools'[k].size = Config(Cur, k).min_size
             /\ pools'[k].free_size = Config(Cur, k).min_size]_vars

\* C15: a get_conn call that finds the free list non-empty, and whose callback
\* calls no get_conn itself, opens and spawns nothing: it takes the first free
\* connection, sets its dr and connect_cb to the caller's, invokes the callback
\* once with OK, moves the connection to the tail of the busy list, decrements
\* free_size by one, leaves size alone and returns the connection, which is
\* then no longer the first entry of the free list.
C15_LendFromFreeList ==
    [][\A k \in Keys :
          (/\ last'.op = "get_conn" /\ last'.key = k /\ ~crashed'
           /\ last'.reenter = 0
           /\ pools[k].alloc
           /\ ~ListIsEmpty(Cur, Fn(k))
           /\ mk_list_entry_first(Cur, Fn(k)) # NULL)
          => LET c == mk_list_entry_first(Cur, Fn(k)) IN
             /\ last'.spawn_calls = 0 /\ last'.direct_calls = 0
             /\ heap' = heap /\ sess' = sess
             /\ last'.ret = c
             /\ conns'[c].dr = last'.dr /\ conns'[c].connect_cb = last'.cb
             /\ log'[c] = IF Len(log[c]) >= MaxLog THEN log[c]
                          ELSE Append(log[c], "connect_cb_OK")
             /\ \A b \in Blocks \ {c} : log'[b] = log[b]
             /\ prv'[Bn(k)] = Pn(c) /\ nxt'[Pn(c)] = Bn(k)
             /\ nxt'[Fn(k)] # Pn(c)
             /\ pools'[k].free_size = pools[k].free_size - 1
             /\ pools'[k].size = pools[k].size]_vars

\* C16: every connection in a pool's free list has completed its handshake:
\* its state is CONNECTED and it has not been released.
C16_FreeConnectionsAreConnected ==
    ~crashed =>
        \A k \in Keys : \A c \in FreeSet(k) :
            conns[c].state = "CONNECTED" /\ ~Released(c)

\* C17: a get_conn call that spawns (once, its callback calling no get_conn)
\* adds to the pool only connections that opened: none of the connections it
\* added and counted is left in state CLOSE by a failed handshake, and size
\* grows by the number of connections that opened.
C17_SpawnCountsOnlyOpened ==
    [][\A k \in Keys :
          (/\ last'.op = "get_conn" /\ last'.key = k /\ ~crashed'
           /\ last'.reenter = 0 /\ last'.spawn_calls = 1
           /\ ~recycle)
          => /\ \A c \in last'.spawned : conns'[c].state # "CLOSE"
             /\ pools'[k].size
                  = (IF pools[k].alloc THEN pools[k].size ELSE 0)
                    + Cardinality({c \in last'.spawned :
                                      conns'[c].state # "CLOSE"})]_vars

\* C18: no call tears down (leaves in state CLOSED, as
\* __postgresql_conn_handle_release does) a connection that a pool lists in
\* its busy list when the call returns.
C18_BusyNeverTornDown ==
    [][~crashed' =>
          \A k \in Keys : \A c \in Blocks :
              (Pn(c) \in ListNodes(Bn(k))' /\ conns[c].state # "CLOSED")
              => conns'[c].state # "CLOSED"]_vars

C20_CountersAgreeWithLists ==
    ~crashed =>
        \A k \in Keys : pools[k].alloc =>
            /\ pools[k].free_size = Cardinality(FreeSet(k))
            /\ pools[k].size = Cardinality(FreeSet(k)) + Cardinality(BusySet(k))

\* C21: no pooled connection is in the hands of two borrowers at once: of the
\* handles get_conn returned and reclaim_conn has not taken back, at most one
\* is a given pooled connection.
C21_NeverLentTwice ==
    ~crashed =>
        \A c \in Blocks : conns[c].is_pooled = 1 => lent[c] <= 1

====
